---- MODULE Spec2Model ----
(***************************************************************************)
(* Model of the Aurora Analyst repository: the /api/analyze route          *)
(* (sanitizeNumber, normalizePeriods, normalizeAssumptions, POST) and the  *)
(* FinancialAnalyzer page that calls it.                                   *)
(*                                                                         *)
(* JavaScript values are tagged records: the field t is the kind of the    *)
(* value; n is a finite number in units of 1/Scale; s is a string as a     *)
(* sequence of one-character strings; f is the property map of an object;  *)
(* rows is the element list of an array.                                   *)
(***************************************************************************)
EXTENDS Integers, Sequences, FiniteSets, TLC

VARIABLES
    state,      \* the page's AnalyzerState: [data, assumptions]
    result,     \* the page's displayed analysis, or NoResult
    error,      \* the page's displayed error message, or NoError
    mounted,    \* whether the mount effect has run
    reqs,       \* the requests in flight
    issued,     \* how many requests have been issued so far
    faultAt,    \* the period count from which the engine throws (0: never)
    fn,         \* the pure function under examination
    raw,        \* its raw input
    out         \* its output, or Pending

vars == <<state, result, error, mounted, reqs, issued, faultAt, fn, raw, out>>

(***************************************************************************)
(* Bounds of the model.                                                    *)
(***************************************************************************)
MaxStrLen == 3      \* longest string enumerated over Chars
MaxRows == 3        \* longest raw array enumerated over SmallRows

Max(a, b) == IF a >= b THEN a ELSE b
Min(a, b) == IF a <= b THEN a ELSE b

RECURSIVE Pow10(_)
Pow10(k) == IF k <= 0 THEN 1 ELSE 10 * Pow10(k - 1)

\* Numbers carry FracDigits decimal places, enough for every enumerated string.
FracDigits == MaxStrLen - 1
Scale == Pow10(FracDigits)

(***************************************************************************)
(* JavaScript values.                                                      *)
(***************************************************************************)
Undefined == [t |-> "undefined"]
Null == [t |-> "null"]
Bool(b) == [t |-> "boolean", b |-> b]
Num(k) == [t |-> "number", n |-> k]
NaN == [t |-> "NaN"]
PosInfinity == [t |-> "Infinity"]
NegInfinity == [t |-> "-Infinity"]
Str(s) == [t |-> "string", s |-> s]
Obj(f) == [t |-> "object", f |-> f]
Arr(rows) == [t |-> "array", rows |-> rows]

\* typeof value
TypeOf(v) ==
    CASE v.t = "undefined" -> "undefined"
      [] v.t = "boolean" -> "boolean"
      [] v.t \in {"number", "NaN", "Infinity", "-Infinity"} -> "number"
      [] v.t = "string" -> "string"
      [] OTHER -> "object"

\* Number.isFinite(value)
IsFinite(v) == v.t = "number"

\* Array.isArray(value)
IsArray(v) == v.t = "array"

\* value[key] of a value that is not null or undefined
Get(v, key) ==
    IF v.t = "object" /\ key \in DOMAIN v.f THEN v.f[key] ELSE Undefined

\* !value
Falsy(v) ==
    \/ v.t \in {"undefined", "null", "NaN"}
    \/ v.t = "boolean" /\ ~v.b
    \/ v.t = "number" /\ v.n = 0
    \/ v.t = "string" /\ v.s = <<>>

(***************************************************************************)
(* Strings.                                                                *)
(***************************************************************************)
Digits == <<"0", "1", "2", "3", "4", "5", "6", "7", "8", "9">>
IsDigit(c) == \E i \in 1..10 : Digits[i] = c
DigitVal(c) == (CHOOSE i \in 1..10 : Digits[i] = c) - 1
IsSpace(c) == c = " "

RECURSIVE DropWhileSpace(_)
DropWhileSpace(s) ==
    IF s # <<>> /\ IsSpace(Head(s)) THEN DropWhileSpace(Tail(s)) ELSE s

RECURSIVE Reverse(_)
Reverse(s) == IF s = <<>> THEN <<>> ELSE Append(Reverse(Tail(s)), Head(s))

\* String.prototype.trim
Trim(s) == Reverse(DropWhileSpace(Reverse(DropWhileSpace(s))))

\* the longest prefix of s made of digits
RECURSIVE DigitRun(_)
DigitRun(s) ==
    IF s # <<>> /\ IsDigit(Head(s)) THEN <<Head(s)>> \o DigitRun(Tail(s)) ELSE <<>>

Drop(s, k) == SubSeq(s, k + 1, Len(s))

StartsWith(s, p) == Len(s) >= Len(p) /\ SubSeq(s, 1, Len(p)) = p

\* the value of a run of digits
RECURSIVE DigitsValue(_)
DigitsValue(ds) ==
    IF ds = <<>> THEN 0
    ELSE 10 * DigitsValue(SubSeq(ds, 1, Len(ds) - 1)) + DigitVal(ds[Len(ds)])

\* the first FracDigits fraction digits as a count of 1/Scale
FractionValue(ds) ==
    LET kept == SubSeq(ds, 1, Min(Len(ds), FracDigits))
    IN  DigitsValue(kept) * Pow10(FracDigits - Len(kept))

RECURSIVE StripZeros(_)
StripZeros(ds) ==
    IF ds # <<>> /\ Head(ds) = "0" THEN StripZeros(Tail(ds)) ELSE ds

InfinityWord == <<"I", "n", "f", "i", "n", "i", "t", "y">>

(***************************************************************************)
(* A decimal literal at the head of s: sign, digits, fraction, exponent.   *)
(* ok says that s starts with a literal; rest is what follows it.          *)
(***************************************************************************)
NoLiteral(s) == [ok |-> FALSE, rest |-> s, value |-> NaN]

SignedInfinity(neg) == IF neg THEN NegInfinity ELSE PosInfinity

\* the value of the literal: mantissa digits scaled by the exponent
LiteralValue(neg, ints, fracs, exp, rest) ==
    LET mant == DigitsValue(ints) * Scale + FractionValue(fracs)
        \* a non-zero mantissa of more than 309 integer digits overflows a double
        magnitude == Len(StripZeros(ints)) + exp
        scaled == IF exp >= 0 THEN mant * Pow10(exp) ELSE mant \div Pow10(0 - exp)
    IN  IF mant # 0 /\ magnitude > 309
        THEN [ok |-> TRUE, rest |-> rest, value |-> SignedInfinity(neg)]
        ELSE [ok |-> TRUE, rest |-> rest,
              value |-> Num(IF neg THEN 0 - scaled ELSE scaled)]

\* the exponent part, taken only when digits follow the e and its sign
ScanExponent(neg, ints, fracs, s3) ==
    LET hasE == s3 # <<>> /\ Head(s3) \in {"e", "E"}
        signed == hasE /\ Len(s3) >= 2 /\ s3[2] \in {"-", "+"}
        edigits == IF hasE THEN DigitRun(Drop(s3, IF signed THEN 2 ELSE 1)) ELSE <<>>
        magn == DigitsValue(edigits)
    IN  IF edigits = <<>>
        THEN LiteralValue(neg, ints, fracs, 0, s3)
        ELSE LiteralValue(neg, ints, fracs,
                          IF signed /\ s3[2] = "-" THEN 0 - magn ELSE magn,
                          Drop(s3, Len(edigits) + (IF signed THEN 2 ELSE 1)))

\* the fraction part; a literal needs a digit before or after the point
ScanFraction(neg, ints, s2, s) ==
    LET dot == s2 # <<>> /\ Head(s2) = "."
        fracs == IF dot THEN DigitRun(Tail(s2)) ELSE <<>>
    IN  IF Len(ints) + Len(fracs) = 0
        THEN NoLiteral(s)
        ELSE ScanExponent(neg, ints, fracs,
                          IF dot THEN Drop(s2, 1 + Len(fracs)) ELSE s2)

ScanUnsigned(neg, s1, s) ==
    IF StartsWith(s1, InfinityWord)
    THEN [ok |-> TRUE, rest |-> Drop(s1, Len(InfinityWord)), value |-> SignedInfinity(neg)]
    ELSE ScanFraction(neg, DigitRun(s1), Drop(s1, Len(DigitRun(s1))), s)

ScanDecimal(s) ==
    LET hasSign == s # <<>> /\ Head(s) \in {"-", "+"}
    IN  ScanUnsigned(hasSign /\ Head(s) = "-", IF hasSign THEN Tail(s) ELSE s, s)

\* parseFloat(string): the longest decimal literal after leading whitespace
ParseFloat(s) == ScanDecimal(DropWhileSpace(s)).value

\* Number(string): the whole trimmed string is a decimal literal, or is empty
ToNumber(s) ==
    LET t == Trim(s)
        d == ScanDecimal(t)
    IN  IF t = <<>> THEN Num(0)
        ELSE IF d.ok /\ d.rest = <<>> THEN d.value
        ELSE NaN

(***************************************************************************)
(* src/app/api/analyze/route.ts: the sanitizers.                           *)
(***************************************************************************)
NumberKeys == <<"revenue", "cogs", "operatingExpenses", "netIncome",
                "assets", "liabilities", "cash", "freeCashFlow">>
NumberKeySet == {NumberKeys[i] : i \in 1..Len(NumberKeys)}
AssumptionKeys == <<"revenueGrowth", "marginShift", "efficiencyGain", "cashConversion">>
AssumptionKeySet == {AssumptionKeys[i] : i \in 1..Len(AssumptionKeys)}

RowKeySet == {"label"} \cup NumberKeySet

\* an object with none of the properties read
EmptyObject == Obj([k \in RowKeySet |-> Undefined])

\* an object row whose property k is v and whose other properties are w
RowWith(k, v, w) == Obj([key \in RowKeySet |-> IF key = k THEN v ELSE w])

\* an assumptions object whose property k is v and whose other properties are w
AssumptionsWith(k, v, w) ==
    Obj([key \in AssumptionKeySet |-> IF key = k THEN v ELSE w])

PlaceholderLabel == <<"P", "e", "r", "i", "o", "d">>

\* Number.isFinite(parsed) ? parsed : the final return 0
FiniteOrZero(parsed) == IF IsFinite(parsed) THEN parsed ELSE Num(0)

sanitizeNumber_NoFiniteCheck(value) ==
    IF TypeOf(value) = "number" THEN value
    ELSE IF TypeOf(value) = "string" THEN ParseFloat(value.s)
    ELSE Num(0)

sanitizeNumber(value) ==
    IF TypeOf(value) = "number" /\ IsFinite(value) THEN value
    ELSE IF TypeOf(value) = "string" THEN FiniteOrZero(ParseFloat(value.s))
    ELSE Num(0)

normalizeLabel_NoTrim(label) ==
    IF TypeOf(label) = "string" THEN label ELSE Str(PlaceholderLabel)

\* typeof label === "string" && label.trim().length ? label : "Period"
normalizeLabel(label) ==
    IF TypeOf(label) = "string" /\ Len(Trim(label.s)) # 0
    THEN label
    ELSE Str(PlaceholderLabel)

\* the callback of raw.map: null for a row that is not an object, else a
\* FinancialPeriod with its label and its eight numbers
normalizeRow(row) ==
    IF TypeOf(row) # "object" \/ row = Null
    THEN Null
    ELSE [k \in RowKeySet |->
            IF k = "label" THEN normalizeLabel(Get(row, k))
            ELSE sanitizeNumber(Get(row, k))]

RECURSIVE MapRows(_)
MapRows(rows) ==
    IF rows = <<>> THEN <<>> ELSE <<normalizeRow(Head(rows))>> \o MapRows(Tail(rows))

\* Boolean(value) of a mapped row
Truthy(p) == p # Null

normalizePeriods_Reversed(rawPeriods) ==
    IF ~IsArray(rawPeriods) THEN <<>>
    ELSE Reverse(SelectSeq(MapRows(rawPeriods.rows), Truthy))

normalizePeriods(rawPeriods) ==
    IF ~IsArray(rawPeriods) THEN <<>>
    ELSE SelectSeq(MapRows(rawPeriods.rows), Truthy)

ZeroAssumptions ==
    [revenueGrowth |-> Num(0), marginShift |-> Num(0),
     efficiencyGain |-> Num(0), cashConversion |-> Num(0)]

normalizeAssumptions_NoFiniteCheck(rawAssumptions) ==
    IF Falsy(rawAssumptions) \/ TypeOf(rawAssumptions) # "object"
    THEN ZeroAssumptions
    ELSE [k \in AssumptionKeySet |-> sanitizeNumber_NoFiniteCheck(Get(rawAssumptions, k))]

normalizeAssumptions(rawAssumptions) ==
    IF Falsy(rawAssumptions) \/ TypeOf(rawAssumptions) # "object"
    THEN ZeroAssumptions
    ELSE [k \in AssumptionKeySet |-> sanitizeNumber(Get(rawAssumptions, k))]

(***************************************************************************)
(* @/lib/analysis: runAnalysis, the analysis engine.  Its result is a pure *)
(* function of its arguments; the field of records which arguments it is   *)
(* the analysis of.                                                        *)
(***************************************************************************)
Horizon == 3            \* years projected
Sections == 3           \* recommendation sections

RECURSIVE SumOf(_, _)
SumOf(periods, k) ==
    IF periods = <<>> THEN 0 ELSE Head(periods)[k].n + SumOf(Tail(periods), k)

RECURSIVE TotalBurn(_)
TotalBurn(periods) ==
    IF periods = <<>> THEN 0
    ELSE Max(0, 0 - Head(periods).freeCashFlow.n) + TotalBurn(Tail(periods))

RECURSIVE Gcd(_, _)
Gcd(a, b) == IF b = 0 THEN a ELSE Gcd(b, a % b)
Abs(a) == IF a < 0 THEN 0 - a ELSE a

\* a / b as a reduced fraction with a positive denominator (b # 0)
Fraction(a, b) ==
    LET g == Gcd(Abs(a), Abs(b))
        sg == IF b < 0 THEN -1 ELSE 1
    IN  [num |-> sg * (a \div g), den |-> sg * (b \div g)]

AddFractions(x, y) == Fraction(x.num * y.den + y.num * x.den, x.den * y.den)

\* the sum of netIncome / revenue over the periods with revenue # 0
RECURSIVE MarginSum(_)
MarginSum(periods) ==
    IF periods = <<>> THEN [num |-> 0, den |-> 1]
    ELSE IF Head(periods).revenue.n = 0 THEN MarginSum(Tail(periods))
    ELSE AddFractions(Fraction(Head(periods).netIncome.n, Head(periods).revenue.n),
                      MarginSum(Tail(periods)))

\* 4.4: the rule set, in evaluation order
RiskSignals(periods) ==
    LET n == Len(periods)
        first == periods[1]
        last == periods[n]
        newRevenue == last.revenue.n - first.revenue.n
        opex == SumOf(periods, "operatingExpenses")
        negativeMargin == MarginSum(periods).num < 0
        overLeverage == last.assets.n > 0 /\ 10 * last.liabilities.n > 7 * last.assets.n
        shortRunway ==
            IF opex >= 12 * n * Scale
            THEN 12 * n * last.cash.n < 3 * opex
            ELSE last.cash.n < 3 * Scale
        highBurn ==
            IF newRevenue >= Scale
            THEN TotalBurn(periods) > 2 * newRevenue
            ELSE TotalBurn(periods) > 2 * Scale
        worseningCash ==
            /\ n >= 2
            /\ periods[n - 1].freeCashFlow.n < 0
            /\ last.freeCashFlow.n < 0
            /\ last.freeCashFlow.n < periods[n - 1].freeCashFlow.n
    IN  (IF negativeMargin THEN <<"negative profitability">> ELSE <<>>)
        \o (IF overLeverage THEN <<"over-leverage">> ELSE <<>>)
        \o (IF shortRunway THEN <<"short cash runway">> ELSE <<>>)
        \o (IF highBurn THEN <<"inefficient growth spend">> ELSE <<>>)
        \o (IF worseningCash THEN <<"worsening cash trajectory">> ELSE <<>>)

runAnalysis(periods, assumptions) ==
    [t |-> "analysis",
     of |-> [periods |-> periods, assumptions |-> assumptions],
     scenario |-> [y \in 1..Horizon |-> [year |-> y]],
     riskSignals |-> RiskSignals(periods),
     recommendations |-> [i \in 1..Sections |-> [rank |-> i]]]

\* whether the engine throws on these periods: on an empty list, whose last
\* period it reads, and in a faulty build on faultAt periods or more
EngineThrows(periods) ==
    \/ Len(periods) = 0
    \/ faultAt # 0 /\ Len(periods) >= faultAt

(***************************************************************************)
(* src/app/api/analyze/route.ts: POST.                                     *)
(***************************************************************************)
Malformed == [t |-> "malformed"]    \* a request body that is not JSON
NoResponse == [t |-> "none"]
NoException == [t |-> "none"]
Exception(kind) == [t |-> "exception", kind |-> kind]

\* a fixed message text, kept as a string of one token
Message(text) == Str(<<text>>)
NoPeriodsMessage == Message("No financial periods supplied.")
FailureMessage == Message("Unable to evaluate financials.")

\* NextResponse.json(body, {status})
JsonResponse(status, data, err) ==
    [t |-> "response", status |-> status, data |-> data, error |-> err]

SuccessResponse_Partial(analysis) ==
    JsonResponse(200, [analysis EXCEPT !.scenario = <<>>], Undefined)

\* line 66
SuccessResponse(analysis) == JsonResponse(200, analysis, Undefined)

EmptyGuard_Off(periods) == FALSE

\* line 60: !periods.length
EmptyGuard(periods) == Len(periods) = 0

CatchResponse_Detail(exc) == JsonResponse(500, Undefined, Message(exc.kind))

\* lines 67-70: the catch block's response
CatchResponse(exc) == JsonResponse(500, Undefined, FailureMessage)

\* lines 56-66: the try block, to its return or its throw
PostTry(body) ==
    IF body = Malformed
    THEN [exc |-> Exception("SyntaxError"), resp |-> NoResponse, calls |-> <<>>]
    ELSE IF body.t \in {"null", "undefined"}
    THEN [exc |-> Exception("TypeError"), resp |-> NoResponse, calls |-> <<>>]
    ELSE
        LET periods == normalizePeriods(Get(body, "periods"))
            assumptions == normalizeAssumptions(Get(body, "assumptions"))
            call == [periods |-> periods, assumptions |-> assumptions]
        IN  IF EmptyGuard(periods)
            THEN [exc |-> NoException,
                  resp |-> JsonResponse(400, Undefined, NoPeriodsMessage),
                  calls |-> <<>>]
            ELSE IF EngineThrows(periods)
            THEN [exc |-> Exception("EngineError"), resp |-> NoResponse, calls |-> <<call>>]
            ELSE [exc |-> NoException,
                  resp |-> SuccessResponse(runAnalysis(periods, assumptions)),
                  calls |-> <<call>>]

\* lines 54-71: the handler from the resolution of request.json() on
PostOutcome(body) ==
    LET try == PostTry(body)
    IN  IF try.exc # NoException
        THEN [try EXCEPT !.resp = CatchResponse(try.exc)]
        ELSE try

(***************************************************************************)
(* The page: FinancialAnalyzer and its helpers.                            *)
(***************************************************************************)
MaxReqs == 2        \* requests in flight at once
MaxIssued == 2      \* requests issued in one behaviour
MaxPeriods == 3     \* periods the page's table grows to

Pending == [t |-> "pending"]
Idle == [t |-> "idle"]
NoResult == [t |-> "null"]
NoError == [t |-> "null"]

Period(label, revenue, cogs, opex, netIncome, assets, liabilities, cash, fcf) ==
    [label |-> Str(label),
     revenue |-> Num(revenue * Scale), cogs |-> Num(cogs * Scale),
     operatingExpenses |-> Num(opex * Scale), netIncome |-> Num(netIncome * Scale),
     assets |-> Num(assets * Scale), liabilities |-> Num(liabilities * Scale),
     cash |-> Num(cash * Scale), freeCashFlow |-> Num(fcf * Scale)]

\* @/lib/sample-data
defaultPeriods ==
    << Period(<<"F", "Y", "1">>, 100, 40, 36, 10, 200, 60, 50, 8),
       Period(<<"F", "Y", "2">>, 150, 55, 48, 20, 260, 78, 60, 15) >>

defaultAssumptionChoices ==
    { ZeroAssumptions,
      [revenueGrowth |-> Num(5 * Scale), marginShift |-> Num(2 * Scale),
       efficiencyGain |-> Num(Scale \div 2), cashConversion |-> Num(0 - Scale)] }

emptyPeriod == Period(<<>>, 0, 0, 0, 0, 0, 0, 0, 0)

\* JSON.stringify then JSON.parse of a value held in page state
JsonOf(v) ==
    IF v.t \in {"NaN", "Infinity", "-Infinity"} THEN Null ELSE v

\* line 157: the request body of fetchAnalysis, as the server parses it
RequestBodyOf(st) ==
    Obj([periods |->
            Arr([i \in 1..Len(st.data) |->
                    Obj([k \in RowKeySet |-> JsonOf(st.data[i][k])])]),
         assumptions |->
            Obj([k \in AssumptionKeySet |-> JsonOf(st.assumptions[k])])])

\* a request just sent: id numbers the requests in the order of their sending
NewRequest(origin, body) ==
    [id |-> issued + 1, origin |-> origin, body |-> body, pc |-> "sent",
     resp |-> NoResponse, exc |-> NoException, calls |-> <<>>, concurrent |-> FALSE]

CanIssue == issued < MaxIssued /\ Cardinality(reqs) < MaxReqs

\* the requests in flight with r replaced by its next stage
Advance(r, next) == (reqs \ {r}) \cup {next}

\* lines 189-199: refresh up to the await: setError(null), then the fetch is sent
refresh(nextState) ==
    /\ CanIssue
    /\ error' = NoError
    /\ reqs' = reqs \cup {NewRequest("page", RequestBodyOf(nextState))}
    /\ issued' = issued + 1

\* lines 201-204: the mount effect
Mount ==
    /\ ~mounted
    /\ mounted' = TRUE
    /\ refresh(state)
    /\ UNCHANGED <<state, result, faultAt, fn, raw, out>>

\* line 335: the Re-run Analysis button
Rerun ==
    /\ mounted
    /\ refresh(state)
    /\ UNCHANGED <<state, result, mounted, faultAt, fn, raw, out>>

\* lines 238-247
addPeriod ==
    /\ mounted
    /\ Len(state.data) < MaxPeriods
    /\ LET nextState == [data |-> Append(state.data, emptyPeriod),
                         assumptions |-> state.assumptions]
       IN  /\ refresh(nextState)
           /\ state' = nextState
    /\ UNCHANGED <<result, mounted, faultAt, fn, raw, out>>

\* Number.prototype.toString of a finite number
RECURSIVE NatToString(_)
NatToString(k) ==
    IF k < 10 THEN <<Digits[k + 1]>>
    ELSE NatToString(k \div 10) \o <<Digits[(k % 10) + 1]>>

RECURSIVE FractionToString(_, _)
FractionToString(f, width) ==
    IF f = 0 \/ width = 0 THEN <<>>
    ELSE <<Digits[(f \div Pow10(width - 1)) + 1]>>
         \o FractionToString(f % Pow10(width - 1), width - 1)

NumberToString(v) ==
    LET a == Abs(v.n)
        frac == FractionToString(a % Scale, FracDigits)
    IN  (IF v.n < 0 THEN <<"-">> ELSE <<>>)
        \o NatToString(a \div Scale)
        \o (IF frac = <<>> THEN <<>> ELSE <<".">> \o frac)

\* lines 323-325: the range input's min, max and step, in units of 1/Scale
SliderMin(key) == IF key = "marginShift" THEN (0 - 10) * Scale ELSE (0 - 20) * Scale
SliderMax_Uniform(key) == 20 * Scale
SliderMax(key) == IF key = "revenueGrowth" THEN 20 * Scale ELSE 15 * Scale
SliderStep == Scale \div 2

\* the values a range input with these attributes can hold
SliderValues(key) ==
    {v \in SliderMin(key)..SliderMax(key) : (v - SliderMin(key)) % SliderStep = 0}

\* the stops a slider is dragged to
SliderStops(key) ==
    {v \in SliderValues(key) :
        v \in {SliderMin(key), SliderMax(key) - SliderStep, SliderMax(key)}}

\* lines 227-236 with line 327: Number(event.target.value)
updateAssumption(key, text) ==
    /\ mounted
    /\ LET value == ToNumber(text)
           nextState == [data |-> state.data,
                         assumptions |-> [state.assumptions EXCEPT ![key] = value]]
       IN  /\ refresh(nextState)
           /\ state' = nextState
    /\ UNCHANGED <<result, mounted, faultAt, fn, raw, out>>

\* value.replace(/[^\d.-]/g, "")
RECURSIVE KeepNumeric(_)
KeepNumeric(s) ==
    IF s = <<>> THEN <<>>
    ELSE IF IsDigit(Head(s)) \/ Head(s) \in {".", "-"}
    THEN <<Head(s)>> \o KeepNumeric(Tail(s))
    ELSE KeepNumeric(Tail(s))

updatePeriod_Stale(index, key, value) ==
    /\ mounted
    /\ index \in 1..Len(state.data)
    /\ LET parsed == ToNumber(KeepNumeric(value))
           updated == [state.data EXCEPT
                          ![index] = [@ EXCEPT ![key] =
                              IF IsFinite(parsed) THEN parsed ELSE Num(0)]]
           nextState == [state EXCEPT !.data = updated]
       IN  /\ refresh(state)
           /\ state' = nextState
    /\ UNCHANGED <<result, mounted, faultAt, fn, raw, out>>

\* lines 206-215
updatePeriod(index, key, value) ==
    /\ mounted
    /\ index \in 1..Len(state.data)
    /\ LET parsed == ToNumber(KeepNumeric(value))
           updated == [state.data EXCEPT
                          ![index] = [@ EXCEPT ![key] =
                              IF IsFinite(parsed) THEN parsed ELSE Num(0)]]
           nextState == [state EXCEPT !.data = updated]
       IN  /\ refresh(nextState)
           /\ state' = nextState
    /\ UNCHANGED <<result, mounted, faultAt, fn, raw, out>>

updateLabel_Everywhere(index, value) ==
    /\ mounted
    /\ index \in 1..Len(state.data)
    /\ LET updated == [j \in DOMAIN state.data |->
                          [state.data[j] EXCEPT !.label = Str(value)]]
           nextState == [state EXCEPT !.data = updated]
       IN  /\ refresh(nextState)
           /\ state' = nextState
    /\ UNCHANGED <<result, mounted, faultAt, fn, raw, out>>

\* lines 217-225
updateLabel(index, value) ==
    /\ mounted
    /\ index \in 1..Len(state.data)
    /\ LET updated == [state.data EXCEPT ![index] = [@ EXCEPT !.label = Str(value)]]
           nextState == [state EXCEPT !.data = updated]
       IN  /\ refresh(nextState)
           /\ state' = nextState
    /\ UNCHANGED <<result, mounted, faultAt, fn, raw, out>>

\* the cells edited and the texts typed into them
EditedKeys == {"revenue", "freeCashFlow"}
TypedNumbers == {<<"1", "a", ".", "5">>, <<"-">>}
TypedLabels == {<<>>, <<"Q", "1">>}

DefaultErrorMessage == Message("Unable to analyze dataset.")

\* response.ok
ResponseOk(resp) == resp.status >= 200 /\ resp.status <= 299

fetchAnalysis_WholePayload(resp) ==
    [ok |-> TRUE, value |-> resp]

\* lines 160-166: fetchAnalysis after the response has arrived
fetchAnalysis(resp) ==
    IF ~ResponseOk(resp)
    THEN [ok |-> FALSE,
          value |-> IF resp.error.t \in {"null", "undefined"}
                    THEN DefaultErrorMessage ELSE resp.error]
    ELSE [ok |-> TRUE, value |-> resp.data]

PageReceive_ClearsResult(r) ==
    /\ r.origin = "page"
    /\ r.pc = "responded"
    /\ LET got == fetchAnalysis(r.resp)
       IN  IF got.ok
           THEN result' = got.value /\ UNCHANGED error
           ELSE error' = got.value /\ result' = NoResult
    /\ reqs' = reqs \ {r}
    /\ UNCHANGED <<state, mounted, issued, faultAt, fn, raw, out>>

\* lines 193-197: refresh after the await
PageReceive(r) ==
    /\ r.origin = "page"
    /\ r.pc = "responded"
    /\ LET got == fetchAnalysis(r.resp)
       IN  IF got.ok
           THEN result' = got.value /\ UNCHANGED error
           ELSE error' = got.value /\ UNCHANGED result
    /\ reqs' = reqs \ {r}
    /\ UNCHANGED <<state, mounted, issued, faultAt, fn, raw, out>>

\* err.message of the TypeError a rejected fetch throws
NetworkErrorMessage == Message("Failed to fetch")

\* lines 154 and 195-196: the fetch rejects, the request never reaching POST
FetchFails(r) ==
    /\ r.origin = "page"
    /\ r.pc = "sent"
    /\ error' = NetworkErrorMessage
    /\ reqs' = reqs \ {r}
    /\ UNCHANGED <<state, result, mounted, issued, faultAt, fn, raw, out>>

(***************************************************************************)
(* Other clients of the endpoint, and the handler's steps.                 *)
(***************************************************************************)
Body(periods, assumptions) ==
    Obj([periods |-> periods, assumptions |-> assumptions])

LossRow ==
    Obj([k \in RowKeySet |->
        CASE k = "label" -> Str(<<" ">>)
          [] k = "revenue" -> Str(<<"5", "a">>)
          [] k = "netIncome" -> Num(0 - 3 * Scale)
          [] k = "assets" -> Num(Scale)
          [] k = "liabilities" -> Str(<<"1", "e", "2">>)
          [] k = "cash" -> PosInfinity
          [] k = "freeCashFlow" -> Num(0 - 7 * Scale)
          [] OTHER -> Undefined])

DeeperLossRow ==
    Obj([k \in RowKeySet |->
        CASE k = "label" -> Str(<<" ", "Q", "1", " ">>)
          [] k = "revenue" -> Num(5 * Scale)
          [] k = "netIncome" -> Num(0 - 4 * Scale)
          [] k = "freeCashFlow" -> Str(<<"-", "1", "5">>)
          [] OTHER -> Null])

ClientBodies ==
    { Malformed,
      Null,
      Body(Undefined, Undefined),
      Body(Arr(<<Null, Num(Scale)>>), Null),
      Body(Arr(<<LossRow>>), Arr(<<>>)),
      Body(Arr(<<RowWith("label", Num(Scale), Undefined)>>), Undefined),
      Body(Arr(<<Null, LossRow, Str(<<"a">>), DeeperLossRow>>),
           AssumptionsWith("marginShift", Str(<<"1", "a">>), PosInfinity)) }

ClientSend(body) ==
    /\ CanIssue
    /\ reqs' = reqs \cup {NewRequest("client", body)}
    /\ issued' = issued + 1
    /\ UNCHANGED <<state, result, error, mounted, faultAt, fn, raw, out>>

ClientReceive(r) ==
    /\ r.origin = "client"
    /\ r.pc = "responded"
    /\ reqs' = reqs \ {r}
    /\ UNCHANGED <<state, result, error, mounted, issued, faultAt, fn, raw, out>>

\* line 56: POST is entered and suspends at await request.json()
PostBegin(r) ==
    /\ r.pc = "sent"
    /\ reqs' = Advance(r, [r EXCEPT !.pc = "parsing",
                                    !.concurrent = \E q \in reqs \ {r} : q.pc = "parsing"])
    /\ UNCHANGED <<state, result, error, mounted, issued, faultAt, fn, raw, out>>

RequestBody_Shared(r) ==
    (CHOOSE q \in reqs : q.pc = "parsing" /\ \A o \in reqs : o.pc = "parsing" => q.id <= o.id).body

\* the body this invocation's request carries
RequestBody(r) == r.body

\* lines 56-70: request.json() settles and the handler runs to its return
PostResume(r) ==
    /\ r.pc = "parsing"
    /\ LET o == PostOutcome(RequestBody(r))
       IN  reqs' = Advance(r, [r EXCEPT !.pc = "responded", !.resp = o.resp,
                                        !.exc = o.exc, !.calls = o.calls])
    /\ UNCHANGED <<state, result, error, mounted, issued, faultAt, fn, raw, out>>

Init ==
    /\ state \in [data : {defaultPeriods}, assumptions : defaultAssumptionChoices]
    /\ result = NoResult
    /\ error = NoError
    /\ mounted = FALSE
    /\ reqs = {}
    /\ issued = 0
    /\ faultAt \in {0, 2}
    /\ fn = "none"
    /\ raw = Idle
    /\ out = Idle

\* the endpoint with the page as loaded and other clients
Next ==
    \/ Mount
    \/ Rerun
    \/ addPeriod
    \/ \E r \in reqs : PageReceive(r)
    \/ \E body \in ClientBodies : ClientSend(body)
    \/ \E r \in reqs : ClientReceive(r)
    \/ \E r \in reqs : PostBegin(r)
    \/ \E r \in reqs : PostResume(r)

\* the page under its user's edits, with the endpoint serving it
NextPage ==
    \/ Mount
    \/ Rerun
    \/ addPeriod
    \/ \E key \in AssumptionKeySet :
         \E v \in SliderStops(key) : updateAssumption(key, NumberToString(Num(v)))
    \/ \E index \in 1..MaxPeriods :
         \E key \in EditedKeys : \E text \in TypedNumbers : updatePeriod(index, key, text)
    \/ \E index \in 1..MaxPeriods :
         \E text \in TypedLabels : updateLabel(index, text)
    \/ \E r \in reqs : PageReceive(r)
    \/ \E r \in reqs : PostBegin(r)
    \/ \E r \in reqs : PostResume(r)

\* the page as loaded, with an engine that fails on no, two or three periods
InitRefresh ==
    /\ state \in [data : {defaultPeriods}, assumptions : defaultAssumptionChoices]
    /\ result = NoResult
    /\ error = NoError
    /\ mounted = FALSE
    /\ reqs = {}
    /\ issued = 0
    /\ faultAt \in {0, 2, 3}
    /\ fn = "none"
    /\ raw = Idle
    /\ out = Idle

\* the page's refreshes over a network that may fail
NextRefresh ==
    \/ Mount
    \/ Rerun
    \/ addPeriod
    \/ \E text \in TypedLabels : updateLabel(1, text)
    \/ \E r \in reqs : FetchFails(r)
    \/ \E r \in reqs : PageReceive(r)
    \/ \E r \in reqs : PostBegin(r)
    \/ \E r \in reqs : PostResume(r)

Spec == Init /\ [][Next]_vars

SpecRefresh == InitRefresh /\ [][NextRefresh]_vars

SpecPage == Init /\ [][NextPage]_vars

(***************************************************************************)
(* The raw inputs examined: every value JSON.parse can produce for a field *)
(* (NaN is not among them; Infinity is, from a literal such as 1e999).     *)
(***************************************************************************)
Chars == {"1", "5", "-", ".", " ", "a"}

RECURSIVE StringsUpTo(_)
StringsUpTo(k) ==
    IF k = 0 THEN {<<>>}
    ELSE StringsUpTo(k - 1)
         \cup {Append(s, c) : s \in StringsUpTo(k - 1), c \in Chars}

SpecialStrings ==
    { <<"1", "e", "2">>,
      <<"1", "e", "9", "9", "9">>,
      <<"-", "1", "e", "9", "9", "9">>,
      <<"1", "2", "p", "x">>,
      InfinityWord,
      <<"-">> \o InfinityWord,
      <<"F", "Y", "2", "4">>,
      <<" ", "Q", "1", " ">> }

Strings == StringsUpTo(MaxStrLen) \cup SpecialStrings

RawValues ==
    {Undefined, Null, Bool(TRUE), Bool(FALSE), EmptyObject, Arr(<<>>),
     Num(0), Num(7 * Scale), Num(0 - 3 * Scale), Num(Scale \div 2),
     PosInfinity, NegInfinity}
    \cup {Str(s) : s \in Strings}

Fillers == {Undefined, Num(4 * Scale)}

ProbeRows == {RowWith(k, v, w) : k \in RowKeySet, v \in RawValues, w \in Fillers}

RowA == RowWith("label", Str(<<"F", "Y", "2", "4">>), Num(4 * Scale))
RowB == RowWith("revenue", Str(<<"1", "a">>), Undefined)

SmallRows == {Null, Num(Scale), Str(<<"a">>), Bool(TRUE), Arr(<<>>), RowA, RowB}

RECURSIVE SeqsUpTo(_, _)
SeqsUpTo(S, k) ==
    IF k = 0 THEN {<<>>}
    ELSE SeqsUpTo(S, k - 1)
         \cup {Append(q, x) : q \in SeqsUpTo(S, k - 1), x \in S}

RawPeriodInputs ==
    {Undefined, Null, Num(Scale), Str(<<"a">>), EmptyObject}
    \cup {Arr(<<r>>) : r \in ProbeRows}
    \cup {Arr(q) : q \in SeqsUpTo(SmallRows, MaxRows)}

RawAssumptionInputs ==
    {Undefined, Null, Bool(TRUE), Bool(FALSE), Num(0), Num(Scale),
     Str(<<>>), Str(<<"5">>), Arr(<<>>)}
    \cup {AssumptionsWith(k, v, w) : k \in AssumptionKeySet, v \in RawValues, w \in Fillers}


(***************************************************************************)
(* The sanitizers applied to one raw input each.                           *)
(***************************************************************************)
MainIdle ==
    /\ state = Idle
    /\ result = Idle
    /\ error = Idle
    /\ mounted = FALSE
    /\ reqs = {}
    /\ issued = 0
    /\ faultAt = 0

InitNorm ==
    /\ MainIdle
    /\ out = Pending
    /\ \/ fn = "normalizePeriods" /\ raw \in RawPeriodInputs
       \/ fn = "normalizeAssumptions" /\ raw \in RawAssumptionInputs

ApplyNormalizePeriods ==
    /\ fn = "normalizePeriods"
    /\ out = Pending
    /\ out' = [t |-> "periods", list |-> normalizePeriods(raw)]
    /\ UNCHANGED <<state, result, error, mounted, reqs, issued, faultAt, fn, raw>>

ApplyNormalizeAssumptions ==
    /\ fn = "normalizeAssumptions"
    /\ out = Pending
    /\ out' = [t |-> "assumptions", a |-> normalizeAssumptions(raw)]
    /\ UNCHANGED <<state, result, error, mounted, reqs, issued, faultAt, fn, raw>>

NextNorm == ApplyNormalizePeriods \/ ApplyNormalizeAssumptions

SpecNorm == InitNorm /\ [][NextNorm]_vars

(***************************************************************************)
(* Properties of the sanitizers (checked under SpecNorm).                  *)
(***************************************************************************)
\* a raw row that normalizePeriods keeps: a non-null object (arrays included)
IsObjectRow(r) == r.t \in {"object", "array"}

ObjectRows(rawPeriods) ==
    IF IsArray(rawPeriods) THEN SelectSeq(rawPeriods.rows, IsObjectRow) ELSE <<>>

\* the string begins, after leading whitespace and a sign, with a decimal number
LeadsWithNumber(s) ==
    LET t == DropWhileSpace(s)
        u == IF t # <<>> /\ Head(t) \in {"-", "+"} THEN Tail(t) ELSE t
    IN  /\ u # <<>>
        /\ \/ IsDigit(Head(u))
           \/ Head(u) = "." /\ Len(u) >= 2 /\ IsDigit(u[2])

\* the values the claims call absent or non-numeric, a string being
\* non-numeric when the whole of it is not a finite number
NonNumericWhole(v) ==
    \/ v.t \in {"undefined", "null", "boolean", "object", "array",
                "NaN", "Infinity", "-Infinity"}
    \/ v.t = "string" /\ ~IsFinite(ToNumber(v.s))

\* the same, a string being non-numeric when it does not begin with a finite number
NonNumericLeading(v) ==
    \/ v.t \in {"undefined", "null", "boolean", "object", "array",
                "NaN", "Infinity", "-Infinity"}
    \/ v.t = "string" /\ (~LeadsWithNumber(v.s) \/ ~IsFinite(ParseFloat(v.s)))

PeriodsDone == fn = "normalizePeriods" /\ out.t = "periods"
AssumptionsDone == fn = "normalizeAssumptions" /\ out.t = "assumptions"

\* C3 as stated: every numeric field of every period produced by
\* normalizePeriods is finite, and a field that is absent or non-numeric in
\* the raw row (a string that is not a number included) is 0.
C3_FieldsFiniteZeroWhenNotNumber ==
    PeriodsDone =>
        \A j \in DOMAIN out.list \cap DOMAIN ObjectRows(raw) :
            \A k \in NumberKeySet :
                /\ IsFinite(out.list[j][k])
                /\ NonNumericWhole(Get(ObjectRows(raw)[j], k)) => out.list[j][k] = Num(0)

\* C3 amended: every numeric field of every period produced by
\* normalizePeriods is finite, and a field that is absent, of another type,
\* infinite, or a string that does not begin with a finite decimal number is 0.
C3_FieldsFiniteZeroWhenNoLeadingNumber ==
    PeriodsDone =>
        \A j \in DOMAIN out.list \cap DOMAIN ObjectRows(raw) :
            \A k \in NumberKeySet :
                /\ IsFinite(out.list[j][k])
                /\ NonNumericLeading(Get(ObjectRows(raw)[j], k)) => out.list[j][k] = Num(0)

\* C3 witness: a row with a string field that does not begin with a number
\* has been normalized, that field to 0 and a numeric field to itself.
C3_Witness ==
    /\ PeriodsDone
    /\ Len(out.list) = 1
    /\ \E k \in NumberKeySet :
        /\ Get(ObjectRows(raw)[1], k).t = "string"
        /\ Get(ObjectRows(raw)[1], k).s = <<"a", "1">>
        /\ out.list[1][k] = Num(0)
        /\ \E k2 \in NumberKeySet \ {k} : out.list[1][k2] = Num(4 * Scale)

\* C5 as stated: normalizeAssumptions returns exactly the four fields, each
\* finite; a field that is absent or non-numeric is 0; a raw value that is
\* missing, null or not an object gives four zeros.
C5_AssumptionsFiniteZeroWhenNotNumber ==
    AssumptionsDone =>
        /\ DOMAIN out.a = AssumptionKeySet
        /\ \A k \in AssumptionKeySet :
            /\ IsFinite(out.a[k])
            /\ NonNumericWhole(Get(raw, k)) => out.a[k] = Num(0)
        /\ raw.t \notin {"object", "array"} => out.a = ZeroAssumptions

\* C5 amended: as C5, a string field being 0 when it does not begin with a
\* finite decimal number.
C5_AssumptionsFiniteZeroWhenNoLeadingNumber ==
    AssumptionsDone =>
        /\ DOMAIN out.a = AssumptionKeySet
        /\ \A k \in AssumptionKeySet :
            /\ IsFinite(out.a[k])
            /\ NonNumericLeading(Get(raw, k)) => out.a[k] = Num(0)
        /\ raw.t \notin {"object", "array"} => out.a = ZeroAssumptions

\* C5 witness: an assumptions object with an infinite field was normalized.
C5_Witness ==
    /\ AssumptionsDone
    /\ raw.t = "object"
    /\ Get(raw, "revenueGrowth") = PosInfinity
    /\ out.a["revenueGrowth"] = Num(0)
    /\ out.a["marginShift"] = Num(4 * Scale)

\* C9: the output of normalizePeriods holds one period for each raw row that
\* is a non-null object, in the order of the raw array, and nothing else.
C9_OrderPreserved ==
    PeriodsDone =>
        /\ Len(out.list) = Len(ObjectRows(raw))
        /\ \A j \in DOMAIN out.list : out.list[j] = normalizeRow(ObjectRows(raw)[j])

\* C9 witness: two different object rows around a dropped row came out in order.
C9_Witness ==
    /\ PeriodsDone
    /\ IsArray(raw)
    /\ raw.rows = <<RowB, Null, RowA>>
    /\ Len(out.list) = 2
    /\ out.list[1] # out.list[2]
    /\ out.list[1].revenue = Num(Scale)
    /\ out.list[2].label = Str(<<"F", "Y", "2", "4">>)

(***************************************************************************)
(* Properties of the endpoint (checked under Spec).                        *)
(***************************************************************************)
Responded == {r \in reqs : r.pc = "responded"}

\* the body parsed and body.periods could be read
BodyReadable(body) == body # Malformed /\ body.t \notin {"null", "undefined"}

NormalizedPeriodsOf(body) == normalizePeriods(Get(body, "periods"))
NormalizedAssumptionsOf(body) == normalizeAssumptions(Get(body, "assumptions"))

\* C1: runAnalysis is invoked only with a period list of length >= 1; when
\* normalizePeriods yields an empty list the handler answers 400 with the
\* error response and never calls runAnalysis.
C1_EngineOnlyOnNonEmpty ==
    \A r \in reqs :
        /\ \A c \in DOMAIN r.calls : Len(r.calls[c].periods) >= 1
        /\ (r.pc = "responded" /\ BodyReadable(r.body)
                /\ NormalizedPeriodsOf(r.body) = <<>>)
           => /\ r.resp = JsonResponse(400, Undefined, NoPeriodsMessage)
              /\ r.calls = <<>>

\* C1 witness: a body whose periods array holds only null and non-object
\* rows was answered 400 without a call of the engine.
C1_Witness ==
    \E r \in Responded :
        /\ BodyReadable(r.body)
        /\ IsArray(Get(r.body, "periods"))
        /\ Len(Get(r.body, "periods").rows) = 2
        /\ r.resp.status = 400
        /\ r.calls = <<>>

\* C2: any exception raised while POST handles a request (the body not being
\* JSON, the body being null, runAnalysis throwing) is caught and answered
\* with status 500 and the fixed generic error, with no detail of the
\* exception; no exception leaves POST, so every handled request has a response.
C2_ExceptionsGiveGeneric500 ==
    \A r \in Responded :
        /\ r.resp.t = "response"
        /\ (r.body = Malformed \/ r.body = Null \/ r.exc # NoException)
           => r.resp = JsonResponse(500, Undefined, FailureMessage)

\* C2 witness: a throw of the engine and a failure to read the body were both
\* answered with the generic 500.
C2_Witness ==
    \E r1, r2 \in Responded :
        /\ r1.exc = Exception("EngineError")
        /\ r1.calls # <<>>
        /\ r1.resp.status = 500
        /\ r2.exc \in {Exception("SyntaxError"), Exception("TypeError")}
        /\ r2.resp.status = 500

\* the raw label is missing, not a string, empty or whitespace-only
BlankLabel(l) == l.t # "string" \/ \A i \in DOMAIN l.s : IsSpace(l.s[i])

\* C4: every period passed to the engine has a non-empty label: a raw label
\* that is missing, not a string, empty or whitespace-only became "Period",
\* any other string label is kept unchanged; so the empty-label period of
\* addPeriod reaches the engine labelled "Period".
C4_LabelsNonEmpty ==
    \A r \in reqs : \A c \in DOMAIN r.calls :
        LET rows == ObjectRows(Get(r.body, "periods"))
            periods == r.calls[c].periods
        IN  /\ Len(periods) = Len(rows)
            /\ \A j \in DOMAIN periods :
                /\ periods[j].label.t = "string"
                /\ periods[j].label.s # <<>>
                /\ periods[j].label =
                       IF BlankLabel(Get(rows[j], "label"))
                       THEN Str(<<"P", "e", "r", "i", "o", "d">>)
                       ELSE Get(rows[j], "label")

\* C4 witness: the page added a period, and the request that carries its
\* empty label reached the engine with the placeholder.
C4_Witness ==
    /\ Len(state.data) = 3
    /\ state.data[3].label = Str(<<>>)
    /\ \E r \in Responded :
        /\ r.origin = "page"
        /\ Len(Get(r.body, "periods").rows) = 3
        /\ Get(Get(r.body, "periods").rows[3], "label") = Str(<<>>)
        /\ Len(r.calls) = 1
        /\ r.calls[1].periods[3].label = Str(<<"P", "e", "r", "i", "o", "d">>)
        /\ r.calls[1].periods[1].label = Str(<<"F", "Y", "1">>)

IsSuccess(resp) ==
    resp.status = 200 /\ resp.data.t = "analysis" /\ resp.error = Undefined
IsClientError(resp) ==
    resp.status = 400 /\ resp.data = Undefined /\ resp.error.t = "string"
IsServerError(resp) ==
    resp.status = 500 /\ resp.data = Undefined /\ resp.error.t = "string"

\* C6: every request gets exactly one response, of one of three kinds: data
\* with status 200, an error with status 400, an error with status 500.  It
\* is the success kind exactly when the normalized period list is non-empty
\* and no exception occurred, and then its data is the value of runAnalysis
\* for the normalized periods and assumptions, unmodified.
C6_OneResponseOfThreeKinds ==
    \A r \in reqs :
        /\ r.pc # "responded" => r.resp = NoResponse
        /\ r.pc = "responded" =>
            /\ r.resp.t = "response"
            /\ IsSuccess(r.resp) \/ IsClientError(r.resp) \/ IsServerError(r.resp)
            /\ IsSuccess(r.resp) <=>
                  /\ BodyReadable(r.body)
                  /\ NormalizedPeriodsOf(r.body) # <<>>
                  /\ r.exc = NoException
            /\ IsSuccess(r.resp) =>
                  r.resp.data = runAnalysis(NormalizedPeriodsOf(r.body),
                                            NormalizedAssumptionsOf(r.body))

\* C6 witness: a success with the analysis of two sanitized periods and a
\* client error are both answered.
C6_Witness ==
    \E r1, r2 \in Responded :
        /\ IsSuccess(r1.resp)
        /\ Len(r1.resp.data.of.periods) = 2
        /\ r1.origin = "client"
        /\ r1.resp.data.of.assumptions.marginShift = Num(Scale)
        /\ IsClientError(r2.resp)

\* C7: concurrent invocations of POST do not interfere: under every
\* interleaving the response of an invocation is the handler's outcome on its
\* own body, so equal bodies give equal responses.
C7_ResponseOfOwnBodyOnly ==
    /\ \A r \in Responded : r.resp = PostOutcome(r.body).resp
    /\ \A r1, r2 \in Responded : r1.body = r2.body => r1.resp = r2.resp

\* C7 witness: two invocations with different bodies overlapped, the later
\* one entered while the earlier one was suspended, and both have answered
\* differently.
C7_Witness ==
    \E r1, r2 \in Responded :
        /\ r1.id < r2.id
        /\ r2.concurrent
        /\ r1.body # r2.body
        /\ IsSuccess(r1.resp)
        /\ IsClientError(r2.resp)

HasShape(a) ==
    /\ DOMAIN a = {"t", "of", "scenario", "riskSignals", "recommendations"}
    /\ Len(a.scenario) = 3
    /\ Len(a.recommendations) = 3
    /\ Len(a.riskSignals) \in 0..5

InRange(v, lo, hi) == v.t = "number" /\ lo * Scale <= v.n /\ v.n <= hi * Scale

AssumptionsInRange(a) ==
    /\ InRange(a.revenueGrowth, -20, 20)
    /\ InRange(a.marginShift, -10, 15)
    /\ InRange(a.efficiencyGain, -20, 15)
    /\ InRange(a.cashConversion, -20, 15)

\* C10: starting from default assumptions inside the ranges, after any
\* sequence of slider changes every assumption of the analyzer state is
\* inside its range, and so is every assumptions record the page submits.
C10_AssumptionsStayInRange ==
    /\ AssumptionsInRange(state.assumptions)
    /\ \A r \in reqs :
        r.origin = "page" =>
            AssumptionsInRange([k \in AssumptionKeySet |->
                                   Get(Get(r.body, "assumptions"), k)])

\* C10 witness: a slider was dragged to the end of its range and the state
\* was submitted with it.
C10_Witness ==
    /\ state.assumptions.marginShift = Num(15 * Scale)
    /\ \E r \in reqs :
        /\ r.origin = "page"
        /\ Get(Get(r.body, "assumptions"), "marginShift") = Num(15 * Scale)

\* the request issued by this step, if the step issued one from the page
IssuedNow ==
    {r \in reqs' : issued' = issued + 1 /\ r.id = issued' /\ r.origin = "page"}

\* C11: every step of the page that changes the analyzer state issues an
\* analysis request, and the payload of every request the page issues (by an
\* edit, by the mount effect, by the Re-run Analysis button) is the state
\* after the step, never the state before it.
C11_PayloadIsStateAfterChange ==
    [][ /\ \A r \in IssuedNow : r.pc = "sent" /\ r.body = RequestBodyOf(state')
        /\ (state' # state \/ mounted' # mounted \/ Rerun) => IssuedNow # {}
      ]_vars

\* C11 witness: a numeric cell was edited after the mount, and the request
\* just issued carries the edited state.
C11_Witness ==
    /\ issued = 2
    /\ state.data[1].revenue = Num((3 * Scale) \div 2)
    /\ \E r \in reqs :
        /\ r.id = 2
        /\ r.pc = "sent"
        /\ r.body = RequestBodyOf(state)
        /\ r.body # RequestBodyOf([state EXCEPT !.data = defaultPeriods])

\* every refresh of the page has completed
AllRefreshesDone == mounted /\ \A r \in reqs : r.origin # "page"

\* the response the endpoint gives to the request for the latest state
LatestResponse == PostOutcome(RequestBodyOf(state)).resp

\* C12 as stated: once every refresh in flight has completed, whatever the
\* order of the responses, the displayed result is the analysis of the latest
\* analyzer state and an error is displayed only if the request for that
\* state failed.
C12_LatestStateDisplayed ==
    AllRefreshesDone =>
        /\ ResponseOk(LatestResponse) =>
              result = LatestResponse.data /\ error = NoError
        /\ error # NoError => ~ResponseOk(LatestResponse)

(***************************************************************************)
(* Properties of refresh (checked under SpecRefresh).                      *)
(***************************************************************************)
\* the refresh for r completes in this step with a failure: its fetch
\* rejected or its response is not ok
RefreshFails(r) ==
    \/ FetchFails(r)
    \/ PageReceive(r) /\ ~ResponseOk(r.resp)

RefreshSucceeds(r) == PageReceive(r) /\ ResponseOk(r.resp)

OnlyFieldChanges(i, key) ==
    /\ Len(state'.data) = Len(state.data)
    /\ \A j \in DOMAIN state.data :
        /\ DOMAIN state'.data[j] = DOMAIN state.data[j]
        /\ \A k \in RowKeySet :
            (j # i \/ k # key) => state'.data[j][k] = state.data[j][k]
    /\ state'.assumptions = state.assumptions

\* the step leaves the periods and every assumption but key as they were
OnlyAssumptionChanges(key) ==
    /\ state'.data = state.data
    /\ DOMAIN state'.assumptions = DOMAIN state.assumptions
    /\ \A k \in AssumptionKeySet :
        k # key => state'.assumptions[k] = state.assumptions[k]

\* the step appends one all-zero period with an empty label and leaves the
\* existing periods and the assumptions as they were
OnePeriodAppended ==
    /\ state'.data =
           Append(state.data,
                  [label |-> Str(<<>>), revenue |-> Num(0), cogs |-> Num(0),
                   operatingExpenses |-> Num(0), netIncome |-> Num(0),
                   assets |-> Num(0), liabilities |-> Num(0), cash |-> Num(0),
                   freeCashFlow |-> Num(0)])
    /\ state'.assumptions = state.assumptions

\* the value strings of the stops each slider is dragged to
SliderTexts ==
    [key \in AssumptionKeySet |-> {NumberToString(Num(v)) : v \in SliderStops(key)}]

\* C14: updatePeriod(i, key, v) and updateLabel(i, v) change only that field
\* of period i; updateAssumption(key, v) changes only that assumption and no
\* period; addPeriod appends exactly one all-zero, empty-label period and
\* changes nothing else; so the number of periods never decreases.
\* (A step that leaves the state as it was changes no field at all, so the
\* edits are examined on the steps that change the state.)
C14_EditsChangeOnlyTheirTarget ==
    [][ /\ state' # state =>
            /\ \A i \in 1..MaxPeriods : \A key \in EditedKeys : \A text \in TypedNumbers :
                updatePeriod(i, key, text) => OnlyFieldChanges(i, key)
            /\ \A i \in 1..MaxPeriods : \A text \in TypedLabels :
                updateLabel(i, text) => OnlyFieldChanges(i, "label")
            /\ \A key \in AssumptionKeySet : \A text \in SliderTexts[key] :
                updateAssumption(key, text) => OnlyAssumptionChanges(key)
        /\ addPeriod => OnePeriodAppended
        /\ Len(state'.data) >= Len(state.data)
      ]_vars

\* C14 witness: the label of the second period was edited: it alone differs
\* from the periods the page started with.
C14_Witness ==
    /\ issued = 2
    /\ Len(state.data) = 2
    /\ state.data[2].label = Str(<<"Q", "1">>)
    /\ state.data[1] = defaultPeriods[1]
    /\ \A k \in NumberKeySet : state.data[2][k] = defaultPeriods[2][k]
    /\ state.assumptions \in defaultAssumptionChoices

====
